---- MODULE Spec2Model ----
(***************************************************************************)
(* Reaction system of the mood-sharing page (src/main.js): the local cache *)
(* `reactions`, the session identity `currentUserName`, the asynchronous   *)
(* toggleReaction / loadReactionsFromSupabase operations, and the          *)
(* real-time callback on the "reactions" table.                            *)
(*                                                                         *)
(* JavaScript runs one task at a time, so every action below is one        *)
(* synchronous run of code between two suspension points (an `await` on a  *)
(* request to the remote table).  A request is answered in two steps: the  *)
(* table serves it (Serve...), and later the client continuation runs on   *)
(* the answer (...Resume).  Real-time events travel in an ordered channel. *)
(* The continuation of findExistingReaction reads and writes nothing but   *)
(* its own call (it only sends the next request), so it is one step with   *)
(* the answer it runs on.  So is the continuation on a failed answer of    *)
(* addReaction, removeReaction and loadReactionsFromSupabase, which only   *)
(* throws, logs and returns.                                               *)
(*                                                                         *)
(* A page without the #studentName field behaves as a page whose field     *)
(* stays empty: getCurrentUserName finds no value and no blur listener     *)
(* ever sets a name.  The redraw updateMoodListWithReactions writes the    *)
(* DOM, which is no state of this model, and reads the identity through    *)
(* getCurrentUserName, which may store it: that is its part in the steps   *)
(* that redraw.  The page's own globals and helpers (humeurs,              *)
(* showNotification, escapeHtml ...) are defined and do not throw.         *)
(*                                                                         *)
(* Strings whose characters matter (names, which the code trims) are       *)
(* sequences of characters.  null, undefined and '' are all falsy in every *)
(* test the code makes on a name and are all written <<>>.  The emoji of   *)
(* REACTION_TYPES are written by their key names.                          *)
(***************************************************************************)
EXTENDS Integers, Sequences, FiniteSets, Bags, TLC

VARIABLES
    reactions,        \* let reactions = []          (main.js:13)
    currentUserName,  \* let currentUserName = ''    (main.js:14)
    nameInput,        \* the value of the #studentName input element
    supabase,         \* the global client object is present
    isConnected,      \* the global connection flag
    remote,           \* rows of the remote table "reactions"
    nextId,           \* next id / created_at the table assigns
    channel,          \* real-time events sent and not yet delivered
    subscribed,       \* setupReactionsRealtime has subscribed
    listening,        \* the blur listener is registered
    initpc,           \* position of initReactionSystem
    calls,            \* the toggleReaction calls in flight, a bag of records
    load,             \* the loadReactionsFromSupabase call
    out,              \* what the last step returned to its caller and redrew
    p4                \* observer of one pair of toggles made in sequence

vars == <<reactions, currentUserName, nameInput, supabase, isConnected, remote,
          nextId, channel, subscribed, listening, initpc, calls, load, out, p4>>

----------------------------------------------------------------------------
(* Bounds *)

\* toggleReaction calls that may be in flight at once
MaxCalls == 2
\* rows the remote table creates in one behaviour
MaxId == 2

----------------------------------------------------------------------------
(* Values *)

REACTION_TYPES ==
    [LIKE |-> "LIKE", LOVE |-> "LOVE", LAUGH |-> "LAUGH", WOW |-> "WOW",
     CELEBRATE |-> "CELEBRATE"]

\* reactionType argument left out
Undefined == "undefined"

\* inputs the model draws
Posts == {"p1", "p2"}
MoodIdArgs == {"", "p1"}
ReactionTypeArgs == {REACTION_TYPES.LIKE, Undefined}
UserNameArgs == {<<>>, <<"a", "l">>}
PromptAnswers == {<<>>, <<" ">>, <<" ", "a">>, <<"a", "l", " ">>}
TypedNames == {<<" ", "a">>}
QueryTypedNames == {<<" ">>, <<" ", "a">>, <<"b">>}
QueryReactionTypes == {REACTION_TYPES.LIKE, REACTION_TYPES.LOVE}
QueryUserNames == {<<>>, <<"b">>}
OtherToggles == {<<"p2", REACTION_TYPES.LOVE>>}
OtherUser == <<"z", "o">>

\* notifications shown by toggleReaction
NoteNone == ""
NoteConnection == "Erreur de connexion"
NoteName == "Prenom requis pour reagir"
NoteRemoved == "Reaction supprimee"
NoteAdded == "Reaction ajoutee"
NoteError == "Erreur lors de la reaction"

----------------------------------------------------------------------------
(* Strings *)

Falsy(s) == s = <<>>

RECURSIVE TrimStart(_)
TrimStart(s) ==
    IF s # <<>> /\ Head(s) = " " THEN TrimStart(Tail(s)) ELSE s

RECURSIVE TrimEnd(_)
TrimEnd(s) ==
    IF s # <<>> /\ s[Len(s)] = " " THEN TrimEnd(SubSeq(s, 1, Len(s) - 1)) ELSE s

\* String.prototype.trim
Trim(s) == TrimEnd(TrimStart(s))

----------------------------------------------------------------------------
(* The remote table *)

Row(id, moodId, userName, reactionType) ==
    [id |-> id, mood_id |-> moodId, user_name |-> userName,
     reaction_type |-> reactionType, created_at |-> id]

Matches(r, moodId, userName, reactionType) ==
    /\ r.mood_id = moodId
    /\ r.user_name = userName
    /\ r.reaction_type = reactionType

\* .order('created_at', { ascending: false })
RECURSIVE OrderByCreatedAtDesc(_)
OrderByCreatedAtDesc(S) ==
    IF S = {} THEN <<>>
    ELSE LET top == CHOOSE r \in S : \A q \in S : q.created_at <= r.created_at
         IN  <<top>> \o OrderByCreatedAtDesc(S \ {top})

Failure == [error |-> TRUE, data |-> <<>>]
Success(data) == [error |-> FALSE, data |-> data]

\* answers to .select('*').eq(...).eq(...).eq(...).limit(1)
FindAnswers(table, moodId, userName, reactionType) ==
    LET found == {r \in table : Matches(r, moodId, userName, reactionType)}
    IN  {Failure} \cup
        (IF found = {} THEN {Success(<<>>)} ELSE {Success(<<r>>) : r \in found})

Event(type, row) == [eventType |-> type, row |-> row]

\* the channel after the table changed: events go to subscribers only
Notify(ch, sub, events) == IF sub THEN ch \o events ELSE ch

----------------------------------------------------------------------------
(* The cache: pure parts of the code *)

\* a push that keeps one record per (mood_id, user_name, reaction_type)
PushUnlessTriplePresent(cache, row) ==
    IF \E i \in DOMAIN cache :
           Matches(cache[i], row.mood_id, row.user_name, row.reaction_type)
    THEN cache ELSE Append(cache, row)

\* reactions.push(row)
Push(cache, row) == Append(cache, row)

\* reactions.filter(r => r.id !== id)
FilterOutId(cache, id) == SelectSeq(cache, LAMBDA r : r.id # id)

\* getReactionsForMood
GetReactionsForMood(cache, moodId) ==
    SelectSeq(cache, LAMBDA r : r.mood_id = moodId)

\* hasUserReacted once it has a userName or none: its second test and
\* reactions.some
HasUserReacted(cache, moodId, userName, reactionType) ==
    /\ ~Falsy(userName)
    /\ \E i \in DOMAIN cache : Matches(cache[i], moodId, userName, reactionType)

\* the forEach of countReactionsByType: counts[type] = (counts[type] || 0) + 1
RECURSIVE Tally(_, _)
Tally(moodReactions, counts) ==
    IF moodReactions = <<>> THEN counts
    ELSE LET type == Head(moodReactions).reaction_type
             old == IF type \in DOMAIN counts THEN counts[type] ELSE 0
         IN  Tally(Tail(moodReactions),
                   [x \in DOMAIN counts \cup {type} |->
                        IF x = type THEN old + 1 ELSE counts[x]])

\* a count over the whole cache, whatever the post
CountReactionsOfAllMoods(cache, moodId) == Tally(cache, [x \in {} |-> 0])

\* countReactionsByType: the object it returns, a function of the types met
CountReactionsByType(cache, moodId) ==
    Tally(GetReactionsForMood(cache, moodId), [x \in {} |-> 0])

\* an INSERT callback that puts the record first
OnInsertAtFront(cache, row) == <<row>> \o cache

\* the real-time callback on an INSERT payload
OnInsert(cache, row) == Push(cache, row)

\* a DELETE callback that drops one entry of the id only
OnDeleteFirstOnly(cache, row) ==
    IF \E i \in DOMAIN cache : cache[i].id = row.id
    THEN LET k == CHOOSE i \in DOMAIN cache :
                      /\ cache[i].id = row.id
                      /\ \A j \in 1..(i - 1) : cache[j].id # row.id
         IN SubSeq(cache, 1, k - 1) \o SubSeq(cache, k + 1, Len(cache))
    ELSE cache

\* the real-time callback on a DELETE payload
OnDelete(cache, row) == FilterOutId(cache, row.id)

\* an addReaction that leaves the cache to the real-time callback
AddReactionWithoutPush(cache, error, data) ==
    [threw |-> error, cache |-> cache]

\* addReaction after its await: [threw, cache]
AddReactionAfter(cache, error, data) ==
    IF error THEN [threw |-> TRUE, cache |-> cache]
    ELSE IF Len(data) > 0 THEN [threw |-> FALSE, cache |-> Push(cache, data[1])]
    ELSE [threw |-> FALSE, cache |-> cache]

\* a removeReaction that leaves the cache to the real-time callback
RemoveReactionWithoutFilter(cache, error, reactionId) ==
    [threw |-> error, cache |-> cache]

\* a removeReaction that filters the cache before it looks at the error
RemoveReactionFilterFirst(cache, error, reactionId) ==
    [threw |-> error, cache |-> FilterOutId(cache, reactionId)]

\* removeReaction after its await: [threw, cache]
RemoveReactionAfter(cache, error, reactionId) ==
    IF error THEN [threw |-> TRUE, cache |-> cache]
    ELSE [threw |-> FALSE, cache |-> FilterOutId(cache, reactionId)]

\* findExistingReaction after its await: <<row>>, or <<>> for null
FindExistingReactionAfter(error, data) ==
    IF error THEN <<>>
    ELSE IF Len(data) > 0 THEN <<data[1]>> ELSE <<>>

\* what toggleReaction returns once addReaction or removeReaction has
\* returned or thrown (its try/catch)
ToggleOutcome(innerThrew, successNote) ==
    IF innerThrew THEN [ret |-> FALSE, note |-> NoteError, threw |-> FALSE]
    ELSE [ret |-> TRUE, note |-> successNote, threw |-> FALSE]

\* a load that fills the cache only when it is empty
LoadIntoEmptyOnly(cache, error, data) ==
    IF error \/ cache # <<>> THEN cache ELSE data

\* loadReactionsFromSupabase after its await: the new cache
LoadAfter(cache, error, data) == IF error THEN cache ELSE data

----------------------------------------------------------------------------
(* The identity *)

\* a getCurrentUserName that reads the name field before the identity
GetCurrentUserNameFieldFirst(cur, input) ==
    IF ~Falsy(Trim(input))
    THEN [value |-> Trim(input), currentUserName |-> Trim(input)]
    ELSE [value |-> cur, currentUserName |-> cur]

\* getCurrentUserName: the value returned and the identity it leaves
GetCurrentUserName(cur, input) ==
    IF ~Falsy(cur) THEN [value |-> cur, currentUserName |-> cur]
    ELSE IF ~Falsy(Trim(input))
         THEN [value |-> Trim(input), currentUserName |-> Trim(input)]
         ELSE [value |-> <<>>, currentUserName |-> cur]

\* updateMoodListWithReactions: when the page shows posts (#moodList is
\* there and humeurs is not empty) createReactionButtons calls
\* getCurrentUserName for each of them; the identity that leaves
UpdateMoodListWithReactions(cur, input, shown) ==
    IF shown THEN GetCurrentUserName(cur, input).currentUserName ELSE cur

\* a hasUserReacted that gives up when it is given no userName
HasUserReactedWithoutFallback(cache, cur, input, moodId, userName, reactionType) ==
    [value |-> HasUserReacted(cache, moodId, userName, reactionType),
     currentUserName |-> cur]

\* hasUserReacted as a whole: without a userName it asks getCurrentUserName;
\* the value returned and the identity it leaves
HasUserReactedOf(cache, cur, input, moodId, userName, reactionType) ==
    LET got == IF Falsy(userName) THEN GetCurrentUserName(cur, input)
               ELSE [value |-> userName, currentUserName |-> cur]
    IN  [value |-> HasUserReacted(cache, moodId, got.value, reactionType),
         currentUserName |-> got.currentUserName]

\* setCurrentUserName: the identity it leaves
SetCurrentUserName(userName) == userName

\* a test on the prompt's answer that forgets the length
PromptRejectedIfAbsent(answer) == Falsy(answer)

\* the test on the prompt's answer in toggleReaction
PromptRejected(answer) == Falsy(answer) \/ Len(Trim(answer)) < 2

\* the test of the blur listener
BlurAccepts(value) == ~Falsy(Trim(value))


----------------------------------------------------------------------------
(* Calls *)

\* a toggleReaction call whose findExistingReaction query has been sent
NewCall(moodId, userName, reactionType) ==
    [pc |-> "find_sent", moodId |-> moodId, userName |-> userName,
     reactionType |-> reactionType, failed |-> FALSE, data |-> <<>>,
     existingId |-> 0]

TripleOf(call) == <<call.moodId, call.userName, call.reactionType>>

\* the calls in flight with `old` replaced by `new`
Replaced(old, new) == (calls (-) SetToBag({old})) (+) SetToBag({new})

IdleLoad ==
    [pc |-> "idle", data |-> <<>>, served |-> {}, byInit |-> FALSE]

\* a step that returns nothing to a caller and redraws nothing
NoOut ==
    [op |-> "none", ret |-> FALSE, note |-> NoteNone, threw |-> FALSE,
     error |-> FALSE, failed |-> FALSE, mutated |-> "none", id |-> 0,
     redrawn |-> FALSE, value |-> <<>>]

\* toggleReaction returned false before any request
Refused(note) == [NoOut EXCEPT !.op = "toggle", !.note = note]

----------------------------------------------------------------------------
(* Observer of two toggles of one triple made in sequence *)

\* neither the cache nor the table holds a row of the triple and no call
\* works on it
NoRecord(triple) ==
    /\ \A i \in DOMAIN reactions :
         ~Matches(reactions[i], triple[1], triple[2], triple[3])
    /\ \A r \in remote : ~Matches(r, triple[1], triple[2], triple[3])
    /\ \A call \in BagToSet(calls) : TripleOf(call) # triple

\* nor does an event or a load answer still to be applied carry one
Quiet(triple) ==
    /\ NoRecord(triple)
    /\ \A i \in DOMAIN channel :
         ~Matches(channel[i].row, triple[1], triple[2], triple[3])
    /\ \A i \in DOMAIN load.data :
         ~Matches(load.data[i], triple[1], triple[2], triple[3])

P4Off == [phase |-> "off", triple |-> <<"", <<>>, "">>, quiet |-> FALSE]

\* the observer when a call on `triple` passes its checks and sends its query
P4OnSend(watch, triple) ==
    IF p4.phase = "off"
    THEN IF watch /\ NoRecord(triple)
         THEN [phase |-> "first", triple |-> triple, quiet |-> Quiet(triple)]
         ELSE p4
    ELSE IF p4.triple # triple THEN p4
    ELSE IF p4.phase = "between" THEN [p4 EXCEPT !.phase = "second"]
    ELSE P4Off

\* the observer when `call` resolves
P4OnResolve(call) ==
    IF p4.phase \in {"first", "second"} /\ p4.triple = TripleOf(call)
    THEN IF call.failed THEN P4Off
         ELSE [p4 EXCEPT !.phase = IF p4.phase = "first" THEN "between" ELSE "done"]
    ELSE IF p4.phase = "done" THEN P4Off
    ELSE p4

\* the observer on any other step
P4Step == IF p4.phase = "done" THEN P4Off ELSE p4

----------------------------------------------------------------------------
(* Initial state: the script has been loaded *)

Init ==
    /\ reactions = <<>>
    /\ currentUserName = <<>>
    /\ nameInput = <<>>
    /\ supabase \in BOOLEAN
    /\ isConnected \in BOOLEAN
    /\ remote = {}
    /\ nextId = 1
    /\ channel = <<>>
    /\ subscribed = FALSE
    /\ listening = FALSE
    /\ initpc = "start"
    /\ calls = EmptyBag
    /\ load = IdleLoad
    /\ out = NoOut
    /\ p4 = P4Off

----------------------------------------------------------------------------
(* toggleReaction *)

\* a toggleReaction that resolves the name before it looks at the
\* connection and at the moodId
ToggleReactionNameFirst(moodIdArg, reactionTypeArg, userNameArg, answer, watch) ==
    LET reactionType ==
            IF reactionTypeArg = Undefined THEN REACTION_TYPES.LIKE ELSE reactionTypeArg
        got == GetCurrentUserName(currentUserName, nameInput)
        userName == IF ~Falsy(userNameArg) THEN userNameArg
                    ELSE IF ~Falsy(got.value) THEN got.value
                    ELSE IF PromptRejected(answer) THEN <<>> ELSE Trim(answer)
        Refuse(note) ==
            /\ out' = Refused(note)
            /\ p4' = P4Step
            /\ UNCHANGED calls
    IN
    /\ initpc = "ready"
    /\ UNCHANGED <<reactions, nameInput, supabase, isConnected, remote, nextId,
                   channel, subscribed, listening, initpc, load>>
    /\ currentUserName' =
          IF ~Falsy(userNameArg) THEN currentUserName
          ELSE IF ~Falsy(got.value) THEN got.currentUserName
          ELSE IF PromptRejected(answer) THEN got.currentUserName
          ELSE SetCurrentUserName(Trim(answer))
    /\ IF Falsy(userName) THEN Refuse(NoteName)
       ELSE IF ~supabase \/ ~isConnected THEN Refuse(NoteConnection)
       ELSE IF moodIdArg = "" THEN Refuse(NoteNone)
       ELSE /\ calls' = calls (+) SetToBag({NewCall(moodIdArg, userName, reactionType)})
            /\ p4' = P4OnSend(watch, <<moodIdArg, userName, reactionType>>)
            /\ out' = NoOut

\* toggleReaction from the call to the query findExistingReaction sends
ToggleReaction(moodIdArg, reactionTypeArg, userNameArg, answer, watch) ==
    LET reactionType ==
            IF reactionTypeArg = Undefined THEN REACTION_TYPES.LIKE ELSE reactionTypeArg
        got == GetCurrentUserName(currentUserName, nameInput)
        Send(userName) ==
            /\ calls' = calls (+) SetToBag({NewCall(moodIdArg, userName, reactionType)})
            /\ p4' = P4OnSend(watch, <<moodIdArg, userName, reactionType>>)
            /\ out' = NoOut
        Refuse(note) ==
            /\ out' = Refused(note)
            /\ p4' = P4Step
            /\ UNCHANGED calls
    IN
    /\ initpc = "ready"
    /\ UNCHANGED <<reactions, nameInput, supabase, isConnected, remote, nextId,
                   channel, subscribed, listening, initpc, load>>
    /\ IF ~supabase \/ ~isConnected
       THEN Refuse(NoteConnection) /\ UNCHANGED currentUserName
       ELSE IF moodIdArg = ""
       THEN Refuse(NoteNone) /\ UNCHANGED currentUserName
       ELSE IF ~Falsy(userNameArg)
       THEN Send(userNameArg) /\ UNCHANGED currentUserName
       ELSE IF ~Falsy(got.value)
       THEN Send(got.value) /\ currentUserName' = got.currentUserName
       ELSE IF PromptRejected(answer)
       THEN Refuse(NoteName) /\ currentUserName' = got.currentUserName
       ELSE Send(Trim(answer)) /\ currentUserName' = SetCurrentUserName(Trim(answer))

\* the redraw at the end of a step that changed the cache, on a page that
\* shows posts or not
Redraw(redrawn) ==
    \E shown \in BOOLEAN :
        currentUserName' =
            UpdateMoodListWithReactions(currentUserName, nameInput, redrawn /\ shown)

\* the table answers the query of findExistingReaction; on the answer
\* toggleReaction calls removeReaction or addReaction, which sends its request
ServeFind(call) ==
    /\ call.pc = "find_sent"
    /\ \E ans \in FindAnswers(remote, call.moodId, call.userName, call.reactionType) :
         LET existing == FindExistingReactionAfter(ans.error, ans.data)
         IN  calls' = Replaced(call,
                 [call EXCEPT
                    !.pc = IF Len(existing) > 0 THEN "delete_sent" ELSE "insert_sent",
                    !.existingId = IF Len(existing) > 0 THEN existing[1].id ELSE 0,
                    !.failed = ans.error])
    /\ out' = NoOut
    /\ p4' = P4Step
    /\ UNCHANGED <<reactions, currentUserName, nameInput, supabase, isConnected,
                   remote, nextId, channel, subscribed, listening, initpc, load>>

\* a toggleReaction whose addReaction and removeReaction do not redraw
ResolvedWithoutRedraw(call, after, successNote, mutation, id, redrawn) ==
    LET res == ToggleOutcome(after.threw, successNote)
    IN  [op |-> "toggle", ret |-> res.ret, note |-> res.note, threw |-> res.threw,
         error |-> after.threw, failed |-> call.failed \/ after.threw,
         mutated |-> mutation, id |-> id, redrawn |-> FALSE, value |-> <<>>]

\* toggleReaction resolves for `call`, whose addReaction or removeReaction
\* ran on the answer [error, data] after its await
Resolved(call, after, successNote, mutation, id, redrawn) ==
    LET res == ToggleOutcome(after.threw, successNote)
    IN  [op |-> "toggle", ret |-> res.ret, note |-> res.note, threw |-> res.threw,
         error |-> after.threw, failed |-> call.failed \/ after.threw,
         mutated |-> mutation, id |-> id, redrawn |-> redrawn, value |-> <<>>]

\* the table answers the insert of addReaction; on a failed answer
\* addReaction throws and toggleReaction resolves
ServeInsert(call) ==
    /\ call.pc = "insert_sent"
    /\ UNCHANGED <<currentUserName, nameInput, supabase, isConnected,
                   subscribed, listening, initpc, load>>
    /\ \/ /\ nextId <= MaxId
          /\ LET row == Row(nextId, call.moodId, call.userName, call.reactionType)
             IN  /\ remote' = remote \cup {row}
                 /\ channel' = Notify(channel, subscribed, <<Event("INSERT", row)>>)
                 /\ calls' = Replaced(call, [call EXCEPT !.pc = "insert_back",
                                                         !.data = <<row>>])
          /\ nextId' = nextId + 1
          /\ out' = NoOut
          /\ p4' = P4Step
          /\ UNCHANGED reactions
       \/ LET after == AddReactionAfter(reactions, TRUE, <<>>)
          IN  /\ reactions' = after.cache
              /\ calls' = calls (-) SetToBag({call})
              /\ out' = Resolved(call, after, NoteAdded, "none", 0, FALSE)
              /\ p4' = P4OnResolve([call EXCEPT !.failed = TRUE])
              /\ UNCHANGED <<remote, nextId, channel>>

\* the table answers the delete of removeReaction; on a failed answer
\* removeReaction throws and toggleReaction resolves
ServeDelete(call) ==
    /\ call.pc = "delete_sent"
    /\ UNCHANGED <<currentUserName, nameInput, supabase, isConnected,
                   nextId, subscribed, listening, initpc, load>>
    /\ \/ LET gone == {r \in remote : r.id = call.existingId}
          IN  /\ remote' = remote \ gone
              /\ channel' = Notify(channel, subscribed,
                                   IF gone = {} THEN <<>>
                                   ELSE <<Event("DELETE", CHOOSE r \in gone : TRUE)>>)
              /\ calls' = Replaced(call, [call EXCEPT !.pc = "delete_back"])
              /\ out' = NoOut
              /\ p4' = P4Step
              /\ UNCHANGED reactions
       \/ LET after == RemoveReactionAfter(reactions, TRUE, call.existingId)
          IN  /\ reactions' = after.cache
              /\ calls' = calls (-) SetToBag({call})
              /\ out' = Resolved(call, after, NoteRemoved, "none", 0, FALSE)
              /\ p4' = P4OnResolve([call EXCEPT !.failed = TRUE])
              /\ UNCHANGED <<remote, channel>>

\* addReaction resumes on the row the table returned; toggleReaction resolves
AddReactionResume(call) ==
    LET after == AddReactionAfter(reactions, FALSE, call.data)
    IN
    /\ call.pc = "insert_back"
    /\ reactions' = after.cache
    /\ calls' = calls (-) SetToBag({call})
    /\ out' = Resolved(call, after, NoteAdded, "insert", call.data[1].id,
                       Len(call.data) > 0)
    /\ Redraw(Len(call.data) > 0)
    /\ p4' = P4OnResolve(call)
    /\ UNCHANGED <<nameInput, supabase, isConnected, remote, nextId,
                   channel, subscribed, listening, initpc, load>>

\* removeReaction resumes on the table's success; toggleReaction resolves
RemoveReactionResume(call) ==
    LET after == RemoveReactionAfter(reactions, FALSE, call.existingId)
    IN
    /\ call.pc = "delete_back"
    /\ reactions' = after.cache
    /\ calls' = calls (-) SetToBag({call})
    /\ out' = Resolved(call, after, NoteRemoved, "delete", call.existingId, TRUE)
    /\ Redraw(TRUE)
    /\ p4' = P4OnResolve(call)
    /\ UNCHANGED <<nameInput, supabase, isConnected, remote, nextId,
                   channel, subscribed, listening, initpc, load>>

----------------------------------------------------------------------------
(* loadReactionsFromSupabase and initReactionSystem *)

\* setupReactionsRealtime and the listener registration of initReactionSystem
InitRest ==
    /\ initpc' = "ready"
    /\ subscribed' = supabase
    /\ listening' = TRUE

\* initReactionSystem up to the await in loadReactionsFromSupabase
InitReactionSystem ==
    /\ initpc = "start"
    /\ load.pc = "idle"
    /\ IF ~supabase \/ ~isConnected
       THEN InitRest /\ UNCHANGED load
       ELSE /\ load' = [IdleLoad EXCEPT !.pc = "sent", !.byInit = TRUE]
            /\ initpc' = "loading"
            /\ UNCHANGED <<subscribed, listening>>
    /\ out' = NoOut
    /\ p4' = P4Step
    /\ UNCHANGED <<reactions, currentUserName, nameInput, supabase, isConnected,
                   remote, nextId, channel, calls>>

\* loadReactionsFromSupabase called again (manual resync), up to its await
LoadReactionsFromSupabase ==
    /\ load.pc = "idle"
    /\ initpc = "ready"
    /\ IF ~supabase \/ ~isConnected
       THEN /\ out' = [NoOut EXCEPT !.op = "load"]
            /\ UNCHANGED load
       ELSE /\ out' = NoOut
            /\ load' = [IdleLoad EXCEPT !.pc = "sent"]
    /\ p4' = P4Step
    /\ UNCHANGED <<reactions, currentUserName, nameInput, supabase, isConnected,
                   remote, nextId, channel, subscribed, listening, initpc, calls>>

\* the rest of initReactionSystem when it is the caller of the load
LoadReturns ==
    IF load.byInit THEN InitRest ELSE UNCHANGED <<initpc, subscribed, listening>>

\* the table answers the query of loadReactionsFromSupabase; on a failed
\* answer loadReactionsFromSupabase logs and returns
ServeLoad ==
    /\ load.pc = "sent"
    /\ \/ /\ load' = [load EXCEPT !.pc = "back",
                                  !.data = OrderByCreatedAtDesc(remote),
                                  !.served = remote]
          /\ out' = NoOut
          /\ UNCHANGED <<reactions, initpc, subscribed, listening>>
       \/ /\ reactions' = LoadAfter(reactions, TRUE, <<>>)
          /\ load' = IdleLoad
          /\ out' = [NoOut EXCEPT !.op = "load", !.error = TRUE]
          /\ LoadReturns
    /\ p4' = P4Step
    /\ UNCHANGED <<currentUserName, nameInput, supabase, isConnected,
                   remote, nextId, channel, calls>>

\* loadReactionsFromSupabase resumes on the rows the table returned;
\* initReactionSystem, when it is the caller, goes on
LoadResume ==
    /\ load.pc = "back"
    /\ reactions' = LoadAfter(reactions, FALSE, load.data)
    /\ out' = [NoOut EXCEPT !.op = "load", !.ret = TRUE, !.redrawn = TRUE]
    /\ load' = IdleLoad
    /\ LoadReturns
    /\ Redraw(TRUE)
    /\ p4' = P4Step
    /\ UNCHANGED <<nameInput, supabase, isConnected, remote, nextId,
                   channel, calls>>

----------------------------------------------------------------------------
(* The real-time callback *)

OnEvent(cache, e) ==
    IF e.eventType = "INSERT" THEN OnInsert(cache, e.row)
    ELSE IF e.eventType = "DELETE" THEN OnDelete(cache, e.row)
    ELSE cache

DeliverEvent ==
    /\ channel # <<>>
    /\ reactions' = OnEvent(reactions, Head(channel))
    /\ channel' = Tail(channel)
    /\ out' = [NoOut EXCEPT !.op = "event", !.note = Head(channel).eventType,
                            !.id = Head(channel).row.id, !.redrawn = TRUE]
    /\ Redraw(TRUE)
    /\ p4' = P4Step
    /\ UNCHANGED <<nameInput, supabase, isConnected, remote, nextId,
                   subscribed, listening, initpc, calls, load>>

----------------------------------------------------------------------------
(* The page and the other clients *)

\* the user edits the #studentName field
TypeName(value) ==
    /\ nameInput # value
    /\ nameInput' = value
    /\ out' = NoOut
    /\ p4' = P4Step
    /\ UNCHANGED <<reactions, currentUserName, supabase, isConnected, remote, nextId,
                   channel, subscribed, listening, initpc, calls, load>>

\* the blur listener of initReactionSystem
BlurName ==
    /\ listening
    /\ currentUserName' = IF BlurAccepts(nameInput)
                          THEN SetCurrentUserName(Trim(nameInput))
                          ELSE currentUserName
    /\ out' = NoOut
    /\ p4' = P4Step
    /\ UNCHANGED <<reactions, nameInput, supabase, isConnected, remote, nextId,
                   channel, subscribed, listening, initpc, calls, load>>

\* window.updateDisplay as initReactionSystem wraps it: the page's own
\* display, then the redraw
UpdateDisplay ==
    /\ initpc = "ready"
    /\ out' = [NoOut EXCEPT !.op = "display", !.redrawn = TRUE]
    /\ Redraw(TRUE)
    /\ p4' = P4Step
    /\ UNCHANGED <<reactions, nameInput, supabase, isConnected, remote, nextId,
                   channel, subscribed, listening, initpc, calls, load>>

\* the page asks hasUserReacted
HasUserReactedCall(moodId, userName, reactionType) ==
    LET has == HasUserReactedOf(reactions, currentUserName, nameInput,
                                moodId, userName, reactionType)
    IN
    /\ out' = [NoOut EXCEPT !.op = "has", !.ret = has.value]
    /\ currentUserName' = has.currentUserName
    /\ p4' = P4Step
    /\ UNCHANGED <<reactions, nameInput, supabase, isConnected, remote, nextId,
                   channel, subscribed, listening, initpc, calls, load>>

\* the page asks getCurrentUserName
GetCurrentUserNameCall ==
    LET got == GetCurrentUserName(currentUserName, nameInput)
    IN
    /\ out' = [NoOut EXCEPT !.op = "name", !.value = got.value]
    /\ currentUserName' = got.currentUserName
    /\ p4' = P4Step
    /\ UNCHANGED <<reactions, nameInput, supabase, isConnected, remote, nextId,
                   channel, subscribed, listening, initpc, calls, load>>

\* the page asks countReactionsByType
CountReactionsByTypeCall(moodId) ==
    /\ out' = [NoOut EXCEPT !.op = "counts",
                            !.value = CountReactionsByType(reactions, moodId)]
    /\ p4' = P4Step
    /\ UNCHANGED <<reactions, currentUserName, nameInput, supabase, isConnected,
                   remote, nextId, channel, subscribed, listening, initpc, calls,
                   load>>

\* the connection to the service is lost or found again
ConnectionChange ==
    /\ isConnected' = ~isConnected
    /\ out' = NoOut
    /\ p4' = P4Step
    /\ UNCHANGED <<reactions, currentUserName, nameInput, supabase, remote, nextId,
                   channel, subscribed, listening, initpc, calls, load>>

\* another student's page toggles a reaction of its own on the shared table
OtherClientToggle(moodId, reactionType) ==
    LET mine == {r \in remote : Matches(r, moodId, OtherUser, reactionType)}
        row == Row(nextId, moodId, OtherUser, reactionType)
    IN
    /\ IF mine # {}
       THEN /\ remote' = remote \ mine
            /\ channel' = Notify(channel, subscribed,
                                 <<Event("DELETE", CHOOSE r \in mine : TRUE)>>)
            /\ UNCHANGED nextId
       ELSE /\ nextId <= MaxId
            /\ remote' = remote \cup {row}
            /\ channel' = Notify(channel, subscribed, <<Event("INSERT", row)>>)
            /\ nextId' = nextId + 1
    /\ out' = NoOut
    /\ p4' = P4Step
    /\ UNCHANGED <<reactions, currentUserName, nameInput, supabase, isConnected,
                   subscribed, listening, initpc, calls, load>>

----------------------------------------------------------------------------
(* Specifications *)

\* the steps of the table, of the continuations and of the real-time channel
Page ==
    \/ \E call \in BagToSet(calls) : ServeFind(call)
    \/ \E call \in BagToSet(calls) : ServeInsert(call)
    \/ \E call \in BagToSet(calls) : ServeDelete(call)
    \/ \E call \in BagToSet(calls) : AddReactionResume(call)
    \/ \E call \in BagToSet(calls) : RemoveReactionResume(call)
    \/ InitReactionSystem
    \/ LoadReactionsFromSupabase
    \/ ServeLoad
    \/ LoadResume
    \/ DeliverEvent

\* the page and another client of the table
Engine ==
    \/ Page
    \/ \E o \in OtherToggles : OtherClientToggle(o[1], o[2])

\* The reaction engine: toggles of a named user, up to MaxCalls of them in
\* flight at once, reloads, real-time events, another client and a
\* connection that comes and goes.
Next ==
    \/ /\ BagCardinality(calls) < MaxCalls
       /\ \E m \in MoodIdArgs, t \in ReactionTypeArgs :
            ToggleReaction(m, t, <<"a", "l">>, <<>>, FALSE)
    \/ Engine
    \/ ConnectionChange

Spec == Init /\ [][Next]_vars

\* The engine with the observer of two toggles in sequence switched on.
NextSeq ==
    \/ /\ BagCardinality(calls) < MaxCalls
       /\ \E m \in MoodIdArgs, t \in ReactionTypeArgs, w \in BOOLEAN :
            ToggleReaction(m, t, <<"a", "l">>, <<>>, w)
    \/ Engine

SpecSeq == Init /\ [][NextSeq]_vars

\* The session of one user alone on the table: one toggle at a time, with
\* or without a userName argument, the name field typed in and left, the
\* prompt answered.
NextSession ==
    \/ /\ calls = EmptyBag
       /\ \E m \in MoodIdArgs, t \in ReactionTypeArgs, u \in UserNameArgs,
             a \in PromptAnswers : ToggleReaction(m, t, u, a, FALSE)
    \/ Page
    \/ \E v \in TypedNames : TypeName(v)
    \/ BlurName
    \/ UpdateDisplay
    \/ ConnectionChange

SpecSession == Init /\ [][NextSession]_vars

\* The engine started in sync: the other client changes the table only once
\* the page has loaded the cache and subscribed, so that no change goes
\* without its event.
NextSync ==
    \/ /\ BagCardinality(calls) < MaxCalls
       /\ \E m \in MoodIdArgs, t \in ReactionTypeArgs :
            ToggleReaction(m, t, <<"a", "l">>, <<>>, FALSE)
    \/ Page
    \/ /\ initpc = "ready"
       /\ \E o \in OtherToggles : OtherClientToggle(o[1], o[2])
    \/ ConnectionChange

SpecSync == Init /\ [][NextSync]_vars

\* The page reading the cache and the identity: one toggle at a time by the
\* user the name field names, alone on the table, and the three readers.
NextQuery ==
    \/ /\ calls = EmptyBag
       /\ ToggleReaction("p1", REACTION_TYPES.LIKE, <<>>, <<>>, FALSE)
    \/ Page
    \/ \E v \in QueryTypedNames : TypeName(v)
    \/ \E m \in Posts, u \in QueryUserNames, t \in QueryReactionTypes :
            HasUserReactedCall(m, u, t)
    \/ GetCurrentUserNameCall
    \/ \E m \in Posts : CountReactionsByTypeCall(m)

SpecQuery == Init /\ [][NextQuery]_vars

----------------------------------------------------------------------------
(* Claims *)

Ids == 0..nextId

\* entries of the cache with this id
Count(cache, id) == Cardinality({i \in DOMAIN cache : cache[i].id = id})

\* the users and types toggleReaction is called for on this page
ToggleUsers == {<<"a">>, <<"a", "l">>}
ToggleTypes == {REACTION_TYPES.LIKE, REACTION_TYPES.LOVE}

\* C1: in every reachable state the cache holds at most one record for a
\* triple (postId, userName, reactionType), also once the real-time
\* subscription has delivered the events of the toggles.
C1_OnePerTriple ==
    \A m \in Posts, u \in ToggleUsers, t \in ToggleTypes :
        Cardinality({i \in DOMAIN reactions : Matches(reactions[i], m, u, t)}) <= 1

\* C2: a real-time Insert appends the record only if no record with that id
\* is in the cache, and applying the same Insert twice leaves the cache as
\* applying it once does.
C2_InsertIdempotent ==
    \A i \in DOMAIN channel :
        LET e == channel[i]
            once == OnEvent(reactions, e)
        IN  e.eventType = "INSERT" =>
              /\ Count(reactions, e.row.id) > 0 => once = reactions
              /\ OnEvent(once, e) = once

\* C3: a real-time Delete of an id leaves no record with that id in the
\* cache, keeps every other record, changes nothing when the id is absent,
\* and applied twice leaves the cache as applied once.
C3_DeleteIdempotent ==
    \A id \in Ids :
        LET e == Event("DELETE", [id |-> id])
            once == OnEvent(reactions, e)
        IN  /\ Count(once, id) = 0
            /\ \A k \in Ids \ {id} : Count(once, k) = Count(reactions, k)
            /\ Count(reactions, id) = 0 => once = reactions
            /\ OnEvent(once, e) = once

\* a Delete event was just applied to a cache that keeps other records
C3_Witness ==
    /\ out.op = "event"
    /\ out.note = "DELETE"
    /\ reactions # <<>>
    /\ Count(reactions, out.id) = 0

\* the rows of `table` for a post
RowsFor(table, moodId) == {r \in table : r.mood_id = moodId}

\* the records of a sequence, as a set
Range(seq) == {seq[i] : i \in DOMAIN seq}

\* reactionsFor(moodId) holds exactly the rows of `table` for that post
ExactlyFor(cache, table, moodId) ==
    LET mine == GetReactionsForMood(cache, moodId)
    IN  /\ Range(mine) = RowsFor(table, moodId)
        /\ Len(mine) = Cardinality(RowsFor(table, moodId))

\* C4 as claimed: when loadReactionsFromSupabase has completed successfully,
\* reactionsFor(postId) holds exactly the remote collection's records for
\* every post, also when the collection changed while the query was in
\* flight.
C4_LoadMatchesRemote ==
    (out.op = "load" /\ out.ret) =>
        \A moodId \in Posts : ExactlyFor(reactions, remote, moodId)

\* C4 amended: when loadReactionsFromSupabase completes successfully, the
\* cache is the collection as it was when the table answered the query, in
\* descending created_at order: reactionsFor(postId) holds exactly the rows
\* the collection had for every post at that moment, whatever events were
\* applied to the cache since; it matches the collection of now when the
\* collection has not changed since the answer.
C4_LoadMatchesSnapshot ==
    [][(load.pc = "back" /\ load'.pc = "idle") =>
         /\ \A moodId \in Posts : ExactlyFor(reactions', load.served, moodId)
         /\ Len(reactions') = Cardinality(load.served)
         /\ \A i, j \in DOMAIN reactions' :
              i < j => reactions'[i].created_at > reactions'[j].created_at
         /\ load.served = remote' =>
              \A moodId \in Posts : ExactlyFor(reactions', remote', moodId)]_vars

\* a load has just completed successfully on an answer the collection has
\* moved away from
C4_Witness ==
    /\ out.op = "load"
    /\ out.ret
    /\ reactions # <<>>
    /\ Range(reactions) # remote

\* the first toggle of an observed pair resolves: "added", and the user
\* has reacted
FirstResolves ==
    (p4.phase = "first" /\ p4'.phase = "between") =>
        /\ out'.ret
        /\ out'.note = NoteAdded
        /\ HasUserReacted(reactions', p4.triple[1], p4.triple[2], p4.triple[3])

\* the second resolves: "removed", and the user has not reacted
SecondResolves ==
    (p4.phase = "second" /\ p4'.phase = "done") =>
        /\ out'.ret
        /\ out'.note = NoteRemoved
        /\ ~HasUserReacted(reactions', p4.triple[1], p4.triple[2], p4.triple[3])

\* C5 as claimed: from a state where neither the cache nor the table holds
\* a record of the triple, two toggleReaction calls on it made in sequence,
\* each resolved before anything else toggles the triple (and the table
\* answering their requests), return "added" then "removed", and
\* hasUserReacted on the triple is true when the first resolves and false
\* when the second resolves.
C5_ToggleSymmetryAnyStart == [][FirstResolves /\ SecondResolves]_vars

\* C5 amended: the same, from a state where in addition no real-time event
\* and no load answer still to be applied carries a record of the triple.
C5_ToggleSymmetry == [][p4.quiet => (FirstResolves /\ SecondResolves)]_vars

\* the second toggle of an observed pair has just resolved
C5_Witness == p4.phase = "done" /\ p4.quiet /\ out.op = "toggle"

\* C6: whenever a remote operation of toggleReaction fails (the existence
\* query, the insert or the delete), toggleReaction returns false and
\* throws nothing.
C6_FailureReturnsFalse ==
    (out.op = "toggle" /\ out.failed) => (~out.ret /\ ~out.threw)

\* C7: a step that runs on a failed answer of the insert, of the delete or
\* of the load query leaves the cache as it was.
C7_FailureKeepsCache ==
    [][out'.error => reactions' = reactions]_vars

\* a remote operation has just failed under a cache that holds records
C7_Witness == out.error /\ out.op = "toggle" /\ reactions # <<>>

\* C8: toggleReaction called without a userName, with no identity stored,
\* an empty name field and a prompt answer that is absent or shorter than
\* 2 once trimmed returns false, sends nothing, and leaves the cache, the
\* identity and the table as they were; when the connection and the moodId
\* are there, it is the prompt that refuses.
C8_MissingIdentity ==
    [][\A m \in MoodIdArgs, t \in ReactionTypeArgs, a \in PromptAnswers :
         ( /\ Falsy(currentUserName)
           /\ Trim(nameInput) = <<>>
           /\ (a = <<>> \/ Len(Trim(a)) < 2)
           /\ ToggleReaction(m, t, <<>>, a, FALSE) )
         => /\ out'.op = "toggle"
            /\ ~out'.ret
            /\ (supabase /\ isConnected /\ m # "") => out'.note = NoteName
            /\ UNCHANGED <<reactions, currentUserName, remote, nextId, channel,
                           calls, load>>
      ]_vars

\* toggleReaction has just refused for want of a name, under a cache that
\* holds records
C8_Witness ==
    /\ out.op = "toggle"
    /\ out.note = NoteName
    /\ Falsy(currentUserName)
    /\ reactions # <<>>

\* C9: when toggleReaction resolves after its insert or its delete succeeded
\* on the table, the inserted record is in the cache and the deleted id is
\* not.
C9_MutationInCache ==
    /\ (out.op = "toggle" /\ out.mutated = "insert") => Count(reactions, out.id) > 0
    /\ (out.op = "toggle" /\ out.mutated = "delete") => Count(reactions, out.id) = 0

\* a toggle has just resolved after a successful delete, other records
\* staying in the cache
C9_Witness ==
    /\ out.op = "toggle"
    /\ out.mutated = "delete"
    /\ reactions # <<>>

\* C10: in every reachable state the stored identity is unset or a trimmed
\* string of length >= 2, whichever path set it.
C10_IdentityValid ==
    \/ Falsy(currentUserName)
    \/ /\ Len(currentUserName) >= 2
       /\ Trim(currentUserName) = currentUserName

\* the cache holds a record of the three values
Holds(cache, moodId, userName, reactionType) ==
    \E i \in DOMAIN cache :
        /\ cache[i].mood_id = moodId
        /\ cache[i].user_name = userName
        /\ cache[i].reaction_type = reactionType

\* C11 as claimed: hasUserReacted returns false whenever it is given no
\* userName, and otherwise true exactly when the cache holds a record of its
\* three arguments.
C11_HasReactedAbsentIsFalse ==
    [][out'.op = "has" =>
         \A m \in Posts, u \in QueryUserNames, t \in QueryReactionTypes :
             HasUserReactedCall(m, u, t) =>
                 /\ Falsy(u) => ~out'.ret
                 /\ ~Falsy(u) => (out'.ret <=> Holds(reactions, m, u, t))
      ]_vars

\* the user hasUserReacted answers for: its argument, else the stored
\* identity, else the trimmed value of the name field
AnswersFor(u) ==
    IF u # <<>> THEN u
    ELSE IF currentUserName # <<>> THEN currentUserName
    ELSE Trim(nameInput)

\* C11 amended: given no userName, hasUserReacted answers for the user
\* getCurrentUserName resolves (storing the name field's value when it had
\* to read it) and returns false only when none is resolved; it returns
\* true exactly when the cache holds a record of the post, that user and the
\* type, and changes neither the cache nor the table.
C11_HasReacted ==
    [][out'.op = "has" =>
         \A m \in Posts, u \in QueryUserNames, t \in QueryReactionTypes :
             HasUserReactedCall(m, u, t) =>
                 /\ out'.ret <=> (AnswersFor(u) # <<>>
                                    /\ Holds(reactions, m, AnswersFor(u), t))
                 /\ currentUserName' =
                        IF u = <<>> /\ currentUserName = <<>>
                        THEN Trim(nameInput) ELSE currentUserName
                 /\ UNCHANGED <<reactions, remote, channel, calls, load>>
      ]_vars

\* hasUserReacted has just returned true while no record of the only
\* userName it is given is in the cache: it was given none
C11_Witness ==
    /\ out.op = "has"
    /\ out.ret
    /\ \A i \in DOMAIN reactions : reactions[i].user_name # <<"b">>

\* C12: getCurrentUserName returns the stored identity whenever one is set,
\* whatever the name field holds; with none set and a name field whose
\* trimmed value is not empty it returns that trimmed value and stores it as
\* the identity; otherwise it returns nothing and leaves the identity unset.
\* It changes neither the cache nor the table, and sends nothing.
C12_ResolveUserName ==
    [][(out'.op = "name" /\ GetCurrentUserNameCall) =>
         /\ currentUserName # <<>> =>
                (out'.value = currentUserName /\ currentUserName' = currentUserName)
         /\ (currentUserName = <<>> /\ Trim(nameInput) # <<>>) =>
                (out'.value = Trim(nameInput) /\ currentUserName' = Trim(nameInput))
         /\ (currentUserName = <<>> /\ Trim(nameInput) = <<>>) =>
                (out'.value = <<>> /\ currentUserName' = <<>>)
         /\ UNCHANGED <<reactions, nameInput, remote, nextId, channel, calls, load>>
      ]_vars

\* getCurrentUserName has just returned a stored identity while the name
\* field holds another name
C12_Witness ==
    /\ out.op = "name"
    /\ out.value # <<>>
    /\ Trim(nameInput) # <<>>
    /\ out.value # Trim(nameInput)

\* the records of the cache for a post and a reaction type
OfType(cache, moodId, type) ==
    {i \in DOMAIN cache : cache[i].mood_id = moodId /\ cache[i].reaction_type = type}

\* the types of the records of the cache, whatever their post
TypesIn(cache) == {cache[i].reaction_type : i \in DOMAIN cache}

\* the sum of the values of a function of finite domain
RECURSIVE SumOf(_, _)
SumOf(f, S) ==
    IF S = {} THEN 0
    ELSE LET x == CHOOSE y \in S : TRUE IN f[x] + SumOf(f, S \ {x})

\* C13: for every cache and post, countReactionsByType maps each reaction
\* type to the number of cache records of that post and type, leaves out the
\* types with no such record, its counts sum to the length of
\* getReactionsForMood of the post, and it does not change the cache.
C13_CountsByType ==
    [][out'.op = "counts" =>
         \A m \in Posts :
             CountReactionsByTypeCall(m) =>
                 /\ DOMAIN out'.value =
                        {t \in TypesIn(reactions) : OfType(reactions, m, t) # {}}
                 /\ \A t \in DOMAIN out'.value :
                        out'.value[t] = Cardinality(OfType(reactions, m, t))
                 /\ SumOf(out'.value, DOMAIN out'.value) =
                        Len(GetReactionsForMood(reactions, m))
                 /\ UNCHANGED <<reactions, currentUserName, remote, channel, calls,
                                load>>
      ]_vars

\* countReactionsByType has just counted two records of one type
C13_Witness ==
    /\ out.op = "counts"
    /\ \E t \in DOMAIN out.value : out.value[t] = 2

\* the number of calls in flight at a position
AtPc(bag, pc) ==
    BagCardinality([c \in {x \in BagToSet(bag) : x.pc = pc} |-> bag[c]])

\* the table holds no row of the call's triple
NotFound(call) ==
    \A r \in remote : ~Matches(r, call.moodId, call.userName, call.reactionType)

\* C14: nothing serializes the toggles of a triple.  A call whose existence
\* query is answered while the table holds no row of its triple goes on to
\* its insert, whatever other calls are in flight; every insert the table
\* accepts adds a row, and every addReaction that resumes on it adds a cache
\* entry, whatever rows of the triple the table and the cache already hold.
\* Two calls whose queries are both answered before either insert so leave
\* two records of the triple in the table and in the cache.
C14_NothingSerializes ==
    [][\A call \in BagToSet(calls) :
         /\ (NotFound(call) /\ ServeFind(call)) =>
                AtPc(calls', "insert_sent") = AtPc(calls, "insert_sent") + 1
         /\ (ServeInsert(call) /\ remote' # remote) =>
                Cardinality(remote') = Cardinality(remote) + 1
         /\ AddReactionResume(call) => Len(reactions') = Len(reactions) + 1
      ]_vars

\* the toggle that inserted last has just resolved, its query having been
\* answered "not found" by the table: table and cache hold its record and
\* an earlier one of the same triple
C14_Witness ==
    /\ out.op = "toggle"
    /\ out.mutated = "insert"
    /\ ~out.failed
    /\ \E r1 \in remote, r2 \in remote :
         /\ r1.id < r2.id
         /\ r2.id = out.id
         /\ Matches(r2, r1.mood_id, r1.user_name, r1.reaction_type)
         /\ Count(reactions, r1.id) > 0
         /\ Count(reactions, r2.id) > 0

\* C15: whatever the interleaving of the toggles in flight and of the
\* real-time callbacks, the cache never holds two entries of one record id.
C15_UniqueIds == \A id \in Ids : Count(reactions, id) <= 1

\* C16: every step that changes the content of the cache (the push after an
\* insert, the filter after a delete, the replacement by a load, the
\* real-time INSERT and DELETE) calls updateMoodListWithReactions before it
\* ends, so before any other operation or callback runs.
C16_ChangeRedraws == [][reactions' # reactions => out'.redrawn]_vars

\* a toggle has just pushed its record and redrawn
C16_Witness ==
    /\ out.op = "toggle"
    /\ out.mutated = "insert"
    /\ out.redrawn
    /\ Count(reactions, out.id) > 0

\* the step appends one record of the id at the end and keeps the rest
AppendsOnly(id) ==
    /\ Len(reactions') = Len(reactions) + 1
    /\ SubSeq(reactions', 1, Len(reactions)) = reactions
    /\ reactions'[Len(reactions')].id = id
    /\ \A q \in Posts :
         q # reactions'[Len(reactions')].mood_id =>
             GetReactionsForMood(reactions', q) = GetReactionsForMood(reactions, q)

\* the step drops the entries of the id and keeps the rest in their order
RemovesOnly(id) ==
    /\ reactions' = SelectSeq(reactions, LAMBDA r : r.id # id)
    /\ \A q \in Posts :
         (\A i \in DOMAIN reactions : reactions[i].id = id => reactions[i].mood_id # q)
             => GetReactionsForMood(reactions', q) = GetReactionsForMood(reactions, q)

\* C17: a toggleReaction that succeeds and a real-time event change the
\* cache at one record id only: an insert appends the record at the end, a
\* removal drops the entries of the id, every other record stays, in the
\* same relative order; so getReactionsForMood of every other post is
\* unchanged.
C17_OneRecordChanges ==
    [][/\ (out'.op = "toggle" /\ out'.mutated = "insert") => AppendsOnly(out'.id)
       /\ (out'.op = "toggle" /\ out'.mutated = "delete") => RemovesOnly(out'.id)
       /\ (out'.op = "event" /\ out'.note = "INSERT") => AppendsOnly(out'.id)
       /\ (out'.op = "event" /\ out'.note = "DELETE") => RemovesOnly(out'.id)
      ]_vars

\* the callback has just appended a record to a cache that holds a record
\* of another post
C17_Witness ==
    /\ out.op = "event"
    /\ out.note = "INSERT"
    /\ Len(reactions) >= 2
    /\ reactions[Len(reactions)].id = out.id
    /\ \E i \in DOMAIN reactions :
         reactions[i].mood_id # reactions[Len(reactions)].mood_id

\* the record ids of a cache and of a table
IdsIn(cache) == {cache[i].id : i \in DOMAIN cache}
IdsOf(table) == {r.id : r \in table}

\* no toggle and no load is in flight and every event has been applied
Quiescent ==
    /\ initpc = "ready"
    /\ calls = EmptyBag
    /\ load.pc = "idle"
    /\ channel = <<>>

\* C18: from a cache loaded in sync with the table and a subscription that
\* delivers every change in order, whenever no toggleReaction and no load is
\* in flight and every event has been applied, the record ids of the cache
\* are the record ids of the table, whatever the interleaving of toggles,
\* reloads and event deliveries was.
C18_QuiescentConvergence ==
    (subscribed /\ Quiescent) => IdsIn(reactions) = IdsOf(remote)

\* C19: once a successful removeReaction has removed a record from the
\* cache, no real-time INSERT event of that record's id delivered later
\* makes it reappear.  Stated for the record an observed pair of toggles
\* added to the cache and then removed from it, and for the delivery that
\* comes right after the second toggle has resolved.
C19_NoReappearance ==
    [][( /\ p4.phase = "done"
         /\ p4.quiet
         /\ out.op = "toggle"
         /\ out.mutated = "delete"
         /\ channel # <<>>
         /\ Head(channel).eventType = "INSERT"
         /\ Head(channel).row.id = out.id
         /\ DeliverEvent )
       => Count(reactions', out.id) = 0
      ]_vars

\* a step of toggleReaction ends with a result or with one more call in
\* flight, which is what the first line of C20 looks for before it tries
\* the arguments.  A call without a reactionType is a call with the default
\* one, LIKE.
\* C20: without the client or the connection, or without a moodId,
\* toggleReaction returns false before it resolves a name (no prompt, no
\* identity stored), sends no query and no mutation, and leaves the cache as
\* it was; loadReactionsFromSupabase without the client or the connection
\* sends no query and leaves the cache as it was.
C20_RefusedEarly ==
    [][/\ (out'.op = "toggle" \/ calls' # calls) =>
           \A m \in MoodIdArgs, u \in UserNameArgs, a \in PromptAnswers :
              ( /\ ~supabase \/ ~isConnected \/ m = ""
                /\ ToggleReaction(m, REACTION_TYPES.LIKE, u, a, FALSE) )
              => /\ out'.op = "toggle"
                 /\ ~out'.ret
                 /\ out'.note # NoteName
                 /\ UNCHANGED <<reactions, currentUserName, remote, nextId,
                                channel, calls, load>>
       /\ ( /\ ~supabase \/ ~isConnected
            /\ LoadReactionsFromSupabase )
            => UNCHANGED <<reactions, remote, channel, calls, load>>
      ]_vars

\* toggleReaction has just refused for want of a connection, the name field
\* holding a name that no identity stores
C20_Witness ==
    /\ out.op = "toggle"
    /\ out.note = NoteConnection
    /\ Falsy(currentUserName)
    /\ ~Falsy(Trim(nameInput))
    /\ reactions # <<>>


====
